---------------------------- MODULE Spec2Model ----------------------------
(***************************************************************************)
(* OpenPlayground, js/app.js: the project list of the showcase page.       *)
(*                                                                         *)
(* The page keeps its view criteria in module-level variables              *)
(* (currentCategory, currentSort, currentPage, allProjectsData) and in a   *)
(* ProjectVisibilityEngine (imported from ./core/projectVisibilityEngine.js*)
(* at app.js line 20).  The engine's own file is not part of the sources   *)
(* at hand, so its four methods are modelled from its written contract;    *)
(* everything else below is translated from app.js.                        *)
(*                                                                         *)
(* Strings are sequences of one-character strings, so that toLowerCase,    *)
(* trim and includes are computed and not assumed.  Project records are    *)
(* immutable objects; arrays hold references to them, modelled as the      *)
(* record's index in the table Project.                                    *)
(***************************************************************************)
EXTENDS Integers, Sequences, FiniteSets, TLC

VARIABLES
    projectsJson,      \* the decoded content of ./projects.json (an array of record ids)
    domLoaded,         \* the component HTML (.projects-container, #project-search, ...) is in the DOM
    componentsLoaded,  \* app.js 611
    timeoutFired,      \* the 3000 ms fallback timer of app.js 625 has run
    initCount,         \* number of initializeApp() runs
    listeners,         \* number of times setupEventListeners attached the UI handlers
    awaiting1,         \* fetchProjects calls suspended at the first fetch (152-153)
    awaiting2,         \* fetchProjects calls suspended at the second fetch (155-156)
    engineConstructions, \* number of `new ProjectVisibilityEngine(data)` executed
    allProjectsData,   \* app.js 102
    visibilityEngine,  \* app.js 110
    currentCategory,   \* app.js 98
    currentSort,       \* app.js 100
    currentPage,       \* app.js 96
    searchInputValue,  \* searchInput.value
    sortSelectValue,   \* sortSelect.value
    projectsContainer, \* app.js 113: the cached element, or NULL
    rendered,          \* a renderProjects() run has got past its early return
    visible,           \* what renderProjects obtained at 326-342, before the sort
    filteredProjects,  \* the same array after the sort switch of 346-356
    paginationPages,   \* number of page buttons drawn by renderPagination
    discarded,         \* a constructed engine replaced one holding non-default criteria
    lastEvent          \* the callback that ran last, and for some the engine it found

vars == << projectsJson, domLoaded, componentsLoaded, timeoutFired, initCount,
           listeners, awaiting1, awaiting2, engineConstructions, allProjectsData,
           visibilityEngine, currentCategory, currentSort, currentPage,
           searchInputValue, sortSelectValue, projectsContainer, rendered,
           visible, filteredProjects, paginationPages, discarded, lastEvent >>

---------------------------------------------------------------------------
(* Bounds of the model *)

\* longest text typed into the search box
MaxQueryLen == 2
\* componentLoaded events the page may dispatch
MaxComponentEvents == 7

\* characters the user types into the search box
QueryChars == {"a", "B", " "}

---------------------------------------------------------------------------
(* Strings *)

NULL == [null |-> TRUE]

RECURSIVE SeqsUpTo(_, _)
SeqsUpTo(S, n) ==
    IF n = 0 THEN {<< >>}
    ELSE LET shorter == SeqsUpTo(S, n - 1)
         IN  shorter \cup {Append(s, c) : s \in {t \in shorter : Len(t) = n - 1}, c \in S}

\* String.prototype.toLowerCase on one character
LowerChar(c) ==
    CASE c = "A" -> "a"
      [] c = "B" -> "b"
      [] c = "G" -> "g"
      [] c = "T" -> "t"
      [] c = "X" -> "x"
      [] OTHER   -> c

toLowerCase(s) == [i \in 1..Len(s) |-> LowerChar(s[i])]

RECURSIVE trimStart(_)
trimStart(s) == IF s # << >> /\ Head(s) = " " THEN trimStart(Tail(s)) ELSE s

RECURSIVE trimEnd(_)
trimEnd(s) ==
    IF s # << >> /\ s[Len(s)] = " " THEN trimEnd(SubSeq(s, 1, Len(s) - 1)) ELSE s

trim(s) == trimEnd(trimStart(s))

RECURSIVE startsWith(_, _)
startsWith(s, p) ==
    IF p = << >> THEN TRUE
    ELSE IF s = << >> THEN FALSE
    ELSE Head(s) = Head(p) /\ startsWith(Tail(s), Tail(p))

\* String.prototype.includes: scan the start positions left to right
RECURSIVE includes(_, _)
includes(s, p) ==
    IF startsWith(s, p) THEN TRUE
    ELSE IF s = << >> THEN FALSE
    ELSE includes(Tail(s), p)

Range(s) == {s[i] : i \in 1..Len(s)}

---------------------------------------------------------------------------
(* Project data: the records ./projects.json may hold *)

ALL == << "a", "l", "l" >>
DEFAULT == << "d", "e", "f", "a", "u", "l", "t" >>
AZ == << "a", "z" >>
ZA == << "z", "a" >>
NEWEST == << "n", "e", "w", "e", "s", "t" >>

Tools == << "T", "o", "o", "l", "s" >>
Games == << "G", "a", "m", "e", "s" >>
games == << "g", "a", "m", "e", "s" >>
gAmes == << "g", "A", "m", "e", "s" >>
All == << "A", "l", "l" >>
nonexistent == << "n", "o", "n", "e" >>

FillerChar == << "c", "d", "e", "f", "g" >>

\* A record is an object with the fields of projects.json; a field the JSON
\* leaves out is absent from the record's DOMAIN (reads as undefined).
Project(id) ==
    CASE id = 1 -> [title |-> << "A", "x" >>, category |-> Tools,
                    description |-> << "x" >>, tech |-> << << "X" >> >>]
      [] id = 2 -> [title |-> << "x", "y" >>, category |-> Games,
                    description |-> << "b", " ", "a" >>, tech |-> << << "y" >> >>]
      [] id = 3 -> [title |-> << "y", "x" >>, category |-> games,
                    description |-> << "x" >>, tech |-> << << "y" >>, << "a", "B" >> >>]
      [] id = 4 -> [title |-> << "b", "B" >>, category |-> Games,
                    description |-> << "x" >>]
      [] id = 5 -> [title |-> << "x", "a" >>, description |-> << "y" >>,
                    tech |-> << >>]
      [] id = 11 -> [title |-> << "b", "B" >>, category |-> Games,
                    description |-> << "x" >>, tech |-> << >>]
      [] OTHER  -> [title |-> << "z", FillerChar[id - 5] >>, category |-> Tools,
                    description |-> << "x" >>, tech |-> << << "x" >> >>]

has(r, f) == f \in DOMAIN r

\* the contents projects.json may have
Collections == { << >>, << 1, 2 >>, << 3, 1, 4, 2, 5 >> }

\* a projects.json long enough for a second page
LongCollections == { << 3, 1, 11, 2, 5, 6, 7, 8, 9, 10 >> }

\* data-filter attributes of the .filter-btn buttons
FilterValues == { ALL, All, gAmes, nonexistent }

\* option values of #project-sort
SortValues == { DEFAULT, AZ, ZA, NEWEST }

\* texts typed into #project-search
Queries == SeqsUpTo(QueryChars, MaxQueryLen)

---------------------------------------------------------------------------
(* ProjectVisibilityEngine and its QueryNormalizer (core/projectVisibilityEngine.js) *)

normalize(text) == toLowerCase(trim(text))

Engine(projects) ==
    [allProjects |-> projects, searchQuery |-> << >>, category |-> ALL]

setSearchQuery(e, text) == [e EXCEPT !.searchQuery = text]

setCategory(e, categoryName) == [e EXCEPT !.category = categoryName]

reset(e) == [e EXCEPT !.searchQuery = << >>, !.category = ALL]

categoryGate(e, id) ==
    LET c == toLowerCase(e.category)
        r == Project(id)
    IN  IF c = ALL THEN TRUE
        ELSE has(r, "category") /\ toLowerCase(r.category) = c

searchGate(e, id) ==
    LET q == normalize(e.searchQuery)
        r == Project(id)
    IN  IF q = << >> THEN TRUE
        ELSE \/ has(r, "title") /\ includes(normalize(r.title), q)
             \/ has(r, "description") /\ includes(normalize(r.description), q)
             \/ has(r, "tech") /\ \E i \in 1..Len(r.tech) : includes(normalize(r.tech[i]), q)

getVisibleProjects(e) ==
    SelectSeq(e.allProjects, LAMBDA id : categoryGate(e, id) /\ searchGate(e, id))

---------------------------------------------------------------------------
(* app.js: constants and helpers of the render layer *)

totalComponents == 6
itemsPerPage == 9

ELEMENT == [el |-> "projects-container"]

\* collation order of the characters that occur in titles
LetterOrder == << " ", "a", "b", "c", "d", "e", "f", "g", "x", "y", "z" >>

Rank(c) == CHOOSE i \in 1..Len(LetterOrder) : LetterOrder[i] = LowerChar(c)

\* String.prototype.localeCompare: letters first, case only to break a tie
\* (lower case before upper case); -1, 0 or 1
RECURSIVE comparePrimary(_, _)
comparePrimary(a, b) ==
    IF a = << >> /\ b = << >> THEN 0
    ELSE IF a = << >> THEN -1
    ELSE IF b = << >> THEN 1
    ELSE IF Rank(Head(a)) < Rank(Head(b)) THEN -1
    ELSE IF Rank(Head(a)) > Rank(Head(b)) THEN 1
    ELSE comparePrimary(Tail(a), Tail(b))

RECURSIVE compareCase(_, _)
compareCase(a, b) ==
    IF a = << >> \/ b = << >> THEN 0
    ELSE IF Head(a) = Head(b) THEN compareCase(Tail(a), Tail(b))
    ELSE IF Head(a) = LowerChar(Head(a)) THEN -1
    ELSE 1

localeCompare(a, b) ==
    LET primary == comparePrimary(a, b)
    IN  IF primary # 0 THEN primary ELSE compareCase(a, b)

\* the comparator of the "az" case (desc = FALSE) and of the "za" case (desc = TRUE)
compareTitles(x, y, desc) ==
    IF desc THEN localeCompare(Project(y).title, Project(x).title)
    ELSE localeCompare(Project(x).title, Project(y).title)

\* Array.prototype.sort is stable: x goes before the first element that
\* compares greater than x
RECURSIVE insertSorted(_, _, _)
insertSorted(s, x, desc) ==
    IF s = << >> THEN << x >>
    ELSE IF compareTitles(Head(s), x, desc) > 0 THEN << x >> \o s
    ELSE << Head(s) >> \o insertSorted(Tail(s), x, desc)

RECURSIVE sortByTitle(_, _)
sortByTitle(s, desc) ==
    IF s = << >> THEN << >>
    ELSE insertSorted(sortByTitle(SubSeq(s, 1, Len(s) - 1), desc), s[Len(s)], desc)

reverse(s) == [i \in 1..Len(s) |-> s[Len(s) + 1 - i]]

\* the sort switch of renderProjects
sortProjects(s, sort) ==
    CASE sort = AZ     -> sortByTitle(s, FALSE)
      [] sort = ZA     -> sortByTitle(s, TRUE)
      [] sort = NEWEST -> reverse(s)
      [] OTHER         -> s

\* Math.ceil(n / itemsPerPage)
totalPagesOf(n) == (n + itemsPerPage - 1) \div itemsPerPage

\* filtered.slice(start, start + itemsPerPage)
pageSlice(s, page) ==
    LET start == (page - 1) * itemsPerPage
        end   == IF start + itemsPerPage < Len(s) THEN start + itemsPerPage ELSE Len(s)
    IN  SubSeq(s, start + 1, end)

\* the fallback filter of renderProjects, used while no engine exists
fallbackFilter(data, category) ==
    IF category # ALL
    THEN SelectSeq(data, LAMBDA id :
            (IF has(Project(id), "category")
             THEN toLowerCase(Project(id).category) ELSE << >>) = toLowerCase(category))
    ELSE data

---------------------------------------------------------------------------
(* app.js: renderProjects *)

\* The state renderProjects reads, with the values its caller has just set.
View(data, engine, category, sort, page) ==
    [projectsContainer |-> projectsContainer, domLoaded |-> domLoaded,
     allProjectsData |-> data, visibilityEngine |-> engine,
     currentCategory |-> category, currentSort |-> sort, currentPage |-> page,
     rendered |-> rendered, visible |-> visible,
     filteredProjects |-> filteredProjects, paginationPages |-> paginationPages]

\* Variants of renderProjects with one slip each, used to see that the
\* properties below depend on it.
renderWith(s, filtered, engineAfter) ==
    LET container == IF s.projectsContainer = NULL /\ s.domLoaded
                     THEN ELEMENT ELSE s.projectsContainer
        sorted    == sortProjects(filtered, s.currentSort)
        paginated == pageSlice(sorted, s.currentPage)
        totalPages == totalPagesOf(Len(sorted))
        threw     == \E i \in 1..Len(paginated) : ~has(Project(paginated[i]), "tech")
    IN  IF container = NULL
        THEN [projectsContainer |-> NULL, visibilityEngine |-> s.visibilityEngine,
              rendered |-> s.rendered, visible |-> s.visible,
              filteredProjects |-> s.filteredProjects,
              paginationPages |-> s.paginationPages]
        ELSE [projectsContainer |-> container, visibilityEngine |-> engineAfter,
              rendered |-> TRUE, visible |-> filtered, filteredProjects |-> sorted,
              paginationPages |->
                  IF paginated = << >> THEN 0
                  ELSE IF threw THEN s.paginationPages
                  ELSE IF totalPages <= 1 THEN 0
                  ELSE totalPages]

\* slip: the engine is never consulted, the inline category filter decides
renderProjects_fallbackOnly(s) ==
    renderWith(s, fallbackFilter(s.allProjectsData, s.currentCategory), s.visibilityEngine)

\* slip: the spread copy of allProjectsData is drawn as it is
renderProjects_unfiltered(s) ==
    renderWith(s, s.allProjectsData, s.visibilityEngine)

\* slip: the inline category filter is still applied to the engine's result
renderProjects_categoryVerbatim(s) ==
    renderWith(s,
               IF s.visibilityEngine # NULL
               THEN fallbackFilter(getVisibleProjects(s.visibilityEngine), s.currentCategory)
               ELSE fallbackFilter(s.allProjectsData, s.currentCategory),
               s.visibilityEngine)

\* slip: records without a tech list are dropped before the cards are drawn
renderProjects_dropsIncomplete(s) ==
    renderWith(s,
               SelectSeq(IF s.visibilityEngine # NULL
                         THEN getVisibleProjects(s.visibilityEngine)
                         ELSE fallbackFilter(s.allProjectsData, s.currentCategory),
                         LAMBDA id : has(Project(id), "tech")),
               s.visibilityEngine)

\* slip: the engine's result is appended to the spread copy instead of replacing it
renderProjects_appends(s) ==
    renderWith(s,
               IF s.visibilityEngine # NULL
               THEN s.allProjectsData \o getVisibleProjects(s.visibilityEngine)
               ELSE fallbackFilter(s.allProjectsData, s.currentCategory),
               s.visibilityEngine)

\* slip: the in-place sort reaches the engine's own array
renderProjects_sortsEngineArray(s) ==
    renderWith(s,
               IF s.visibilityEngine # NULL
               THEN getVisibleProjects(s.visibilityEngine)
               ELSE fallbackFilter(s.allProjectsData, s.currentCategory),
               IF s.visibilityEngine # NULL
               THEN [s.visibilityEngine EXCEPT
                        !.allProjects = sortProjects(@, s.currentSort)]
               ELSE s.visibilityEngine)

\* renderProjects(): what it leaves behind.  Lines 359-363 repeat the sort
\* switch on another name and 365-367 page that name; they are read as
\* acting on the one list of 326-356.  The array it sorts in place is
\* the one getVisibleProjects() returned (or the spread copy of
\* allProjectsData), never the engine's or the module's own array.
renderProjects(s) ==
    LET container == IF s.projectsContainer = NULL /\ s.domLoaded
                     THEN ELEMENT ELSE s.projectsContainer
        filtered  == IF s.visibilityEngine # NULL
                     THEN getVisibleProjects(s.visibilityEngine)
                     ELSE fallbackFilter(s.allProjectsData, s.currentCategory)
        sorted    == sortProjects(filtered, s.currentSort)
        paginated == pageSlice(sorted, s.currentPage)
        totalPages == totalPagesOf(Len(sorted))
        \* project.tech.map(...) on a record without a tech list is a TypeError
        threw     == \E i \in 1..Len(paginated) : ~has(Project(paginated[i]), "tech")
    IN  IF container = NULL
        THEN [projectsContainer |-> NULL, visibilityEngine |-> s.visibilityEngine,
              rendered |-> s.rendered, visible |-> s.visible,
              filteredProjects |-> s.filteredProjects,
              paginationPages |-> s.paginationPages]
        ELSE [projectsContainer |-> container, visibilityEngine |-> s.visibilityEngine,
              rendered |-> TRUE, visible |-> filtered, filteredProjects |-> sorted,
              paginationPages |->
                  IF paginated = << >> THEN 0
                  ELSE IF threw THEN s.paginationPages
                  ELSE IF totalPages <= 1 THEN 0
                  ELSE totalPages]

AfterRender(result) ==
    \E r \in {result} :
    /\ projectsContainer' = r.projectsContainer
    /\ visibilityEngine' = r.visibilityEngine
    /\ rendered' = r.rendered
    /\ visible' = r.visible
    /\ filteredProjects' = r.filteredProjects
    /\ paginationPages' = r.paginationPages

---------------------------------------------------------------------------
(* app.js: the handlers' calls into the engine *)

\* slip: the text is normalised when it is stored
onSearchInput_normalized(e, value) ==
    IF e # NULL THEN setSearchQuery(e, normalize(value)) ELSE e

\* search input handler, 201-203
onSearchInput(e, value) == IF e # NULL THEN setSearchQuery(e, value) ELSE e

\* slip: a category no record has is not passed on
onFilterClick_validated(e, category) ==
    IF e # NULL /\ (toLowerCase(category) = ALL
                    \/ \E i \in 1..Len(e.allProjects) :
                          /\ has(Project(e.allProjects[i]), "category")
                          /\ toLowerCase(Project(e.allProjects[i]).category)
                                = toLowerCase(category))
    THEN setCategory(e, category) ELSE e

\* filter button handler, 227-229
onFilterClick(e, category) == IF e # NULL THEN setCategory(e, category) ELSE e

\* slip: the engine is not reset
onClearFilters_noReset(e) == e

\* clear filters handler, 264-266
onClearFilters(e) == IF e # NULL THEN reset(e) ELSE e

HasCriteria(e) == e # NULL /\ (e.searchQuery # << >> \/ e.category # ALL)

---------------------------------------------------------------------------
(* The page: state after the module has been evaluated *)

Loading(collections) ==
    /\ projectsJson \in collections
    /\ domLoaded = FALSE
    /\ componentsLoaded = 0
    /\ timeoutFired = FALSE
    /\ initCount = 0
    /\ listeners = 0
    /\ awaiting1 = 1              \* fetchProjects() at 605 is suspended at its first await
    /\ awaiting2 = 0
    /\ engineConstructions = 0
    /\ allProjectsData = << >>
    /\ visibilityEngine = NULL
    /\ currentCategory = ALL
    /\ currentSort = DEFAULT
    /\ currentPage = 1
    /\ searchInputValue = << >>
    /\ sortSelectValue = DEFAULT
    /\ projectsContainer = NULL
    /\ rendered = FALSE
    /\ visible = << >>
    /\ filteredProjects = << >>
    /\ paginationPages = 0
    /\ discarded = FALSE
    /\ lastEvent = [op |-> "load", before |-> NULL]

Init == Loading(LongCollections)

\* The page once its six components have reported, in time, and the timer
\* has run: initializeApp() has run once and both fetchProjects() calls (605
\* and 306) are still waiting for their first response.
Loaded(collections) ==
    /\ projectsJson \in collections
    /\ domLoaded = TRUE
    /\ componentsLoaded = totalComponents
    /\ timeoutFired = TRUE
    /\ initCount = 1
    /\ listeners = 1
    /\ awaiting1 = 2
    /\ awaiting2 = 0
    /\ engineConstructions = 0
    /\ allProjectsData = << >>
    /\ visibilityEngine = NULL
    /\ currentCategory = ALL
    /\ currentSort = DEFAULT
    /\ currentPage = 1
    /\ searchInputValue = << >>
    /\ sortSelectValue = DEFAULT
    /\ projectsContainer = ELEMENT
    /\ rendered = FALSE
    /\ visible = << >>
    /\ filteredProjects = << >>
    /\ paginationPages = 0
    /\ discarded = FALSE
    /\ lastEvent = [op |-> "timeout", before |-> NULL]

\* initializeApp(): setupEventListeners() queries the elements and attaches
\* the handlers to those it finds (dom: the elements exist), then
\* fetchProjects() runs up to its first await.
initializeApp(dom) ==
    /\ initCount' = initCount + 1
    /\ projectsContainer' = IF dom THEN ELEMENT ELSE NULL
    /\ listeners' = IF dom THEN listeners + 1 ELSE listeners
    /\ awaiting1' = awaiting1 + 1

\* the componentLoaded listener of 614-622; the component that carries the
\* project section is one of the totalComponents
ComponentLoaded ==
    /\ componentsLoaded < MaxComponentEvents
    /\ componentsLoaded' = componentsLoaded + 1
    /\ \E arrived \in BOOLEAN :
          domLoaded' = (domLoaded \/ arrived \/ componentsLoaded' >= totalComponents)
    /\ IF componentsLoaded' = totalComponents
       THEN initializeApp(domLoaded')
       ELSE UNCHANGED << initCount, projectsContainer, listeners, awaiting1 >>
    /\ lastEvent' = [op |-> "componentLoaded", before |-> NULL]
    /\ UNCHANGED << projectsJson, timeoutFired, awaiting2, engineConstructions,
                    allProjectsData, visibilityEngine, currentCategory, currentSort,
                    currentPage, searchInputValue, sortSelectValue, rendered, visible,
                    filteredProjects, paginationPages, discarded >>

\* the fallback timeout of 625-630
Timeout ==
    /\ ~timeoutFired
    /\ timeoutFired' = TRUE
    /\ IF componentsLoaded < totalComponents
       THEN initializeApp(domLoaded)
       ELSE UNCHANGED << initCount, projectsContainer, listeners, awaiting1 >>
    /\ lastEvent' = [op |-> "timeout", before |-> NULL]
    /\ UNCHANGED << projectsJson, domLoaded, componentsLoaded, awaiting2,
                    engineConstructions, allProjectsData, visibilityEngine,
                    currentCategory, currentSort, currentPage, searchInputValue,
                    sortSelectValue, rendered, visible, filteredProjects,
                    paginationPages, discarded >>

\* fetchProjects, 152-153: the first response arrives and is decoded
FetchFirstResponse ==
    /\ awaiting1 > 0
    /\ awaiting1' = awaiting1 - 1
    /\ awaiting2' = awaiting2 + 1
    /\ allProjectsData' = projectsJson
    /\ lastEvent' = [op |-> "fetchFirst", before |-> NULL]
    /\ UNCHANGED << projectsJson, domLoaded, componentsLoaded, timeoutFired, initCount,
                    listeners, engineConstructions, visibilityEngine, currentCategory,
                    currentSort, currentPage, searchInputValue, sortSelectValue,
                    projectsContainer, rendered, visible, filteredProjects,
                    paginationPages, discarded >>

\* fetchProjects, 155-170: the second response arrives; the engine is
\* constructed over it and the list is drawn
FetchSecondResponse ==
    /\ awaiting2 > 0
    /\ awaiting2' = awaiting2 - 1
    /\ allProjectsData' = projectsJson
    /\ engineConstructions' = engineConstructions + 1
    /\ discarded' = (discarded \/ HasCriteria(visibilityEngine))
    /\ AfterRender(renderProjects(View(projectsJson, Engine(projectsJson),
                                       currentCategory, currentSort, currentPage)))
    /\ lastEvent' = [op |-> "fetchSecond", before |-> visibilityEngine]
    /\ UNCHANGED << projectsJson, domLoaded, componentsLoaded, timeoutFired, initCount,
                    listeners, awaiting1, currentCategory, currentSort, currentPage,
                    searchInputValue, sortSelectValue >>

\* fetchProjects, 171-181: a fetch is rejected or its body does not decode;
\* the catch block only writes a message into the container
FetchFailed ==
    /\ \/ awaiting1 > 0 /\ awaiting1' = awaiting1 - 1 /\ awaiting2' = awaiting2
       \/ awaiting2 > 0 /\ awaiting2' = awaiting2 - 1 /\ awaiting1' = awaiting1
    /\ lastEvent' = [op |-> "fetchFailed", before |-> NULL]
    /\ UNCHANGED << projectsJson, domLoaded, componentsLoaded, timeoutFired, initCount,
                    listeners, engineConstructions, allProjectsData, visibilityEngine,
                    currentCategory, currentSort, currentPage, searchInputValue,
                    sortSelectValue, projectsContainer, rendered, visible,
                    filteredProjects, paginationPages, discarded >>

\* the "input" handler of #project-search, 200-206
SearchInput(value) ==
    /\ listeners > 0
    /\ searchInputValue' = value
    /\ currentPage' = 1
    /\ AfterRender(renderProjects(View(allProjectsData,
                                       onSearchInput(visibilityEngine, value),
                                       currentCategory, currentSort, 1)))
    /\ lastEvent' = [op |-> "search", before |-> NULL]
    /\ UNCHANGED << projectsJson, domLoaded, componentsLoaded, timeoutFired, initCount,
                    listeners, awaiting1, awaiting2, engineConstructions,
                    allProjectsData, currentCategory, currentSort, sortSelectValue,
                    discarded >>

\* the "change" handler of #project-sort, 211-215
SortChange(value) ==
    /\ listeners > 0
    /\ sortSelectValue' = value
    /\ currentSort' = value
    /\ currentPage' = 1
    /\ AfterRender(renderProjects(View(allProjectsData, visibilityEngine,
                                       currentCategory, value, 1)))
    /\ lastEvent' = [op |-> "sort", before |-> visibilityEngine]
    /\ UNCHANGED << projectsJson, domLoaded, componentsLoaded, timeoutFired, initCount,
                    listeners, awaiting1, awaiting2, engineConstructions,
                    allProjectsData, currentCategory, searchInputValue, discarded >>

\* the "click" handler of a .filter-btn, 221-232
FilterClick(filter) ==
    /\ listeners > 0
    /\ currentCategory' = filter
    /\ currentPage' = 1
    /\ AfterRender(renderProjects(View(allProjectsData,
                                       onFilterClick(visibilityEngine, filter),
                                       filter, currentSort, 1)))
    /\ lastEvent' = [op |-> "filter", before |-> NULL]
    /\ UNCHANGED << projectsJson, domLoaded, componentsLoaded, timeoutFired, initCount,
                    listeners, awaiting1, awaiting2, engineConstructions,
                    allProjectsData, currentSort, searchInputValue, sortSelectValue,
                    discarded >>

\* the "click" handler of #clear-filters, 252-269
ClearFilters ==
    /\ listeners > 0
    /\ searchInputValue' = << >>
    /\ sortSelectValue' = DEFAULT
    /\ currentCategory' = ALL
    /\ currentPage' = 1
    /\ AfterRender(renderProjects(View(allProjectsData,
                                       onClearFilters(visibilityEngine),
                                       ALL, currentSort, 1)))
    /\ lastEvent' = [op |-> "clear", before |-> visibilityEngine]
    /\ UNCHANGED << projectsJson, domLoaded, componentsLoaded, timeoutFired, initCount,
                    listeners, awaiting1, awaiting2, engineConstructions,
                    allProjectsData, currentSort, discarded >>

\* the "click" handler of a page button drawn by renderPagination, 519-523
PageClick(i) ==
    /\ i \in 1..paginationPages
    /\ currentPage' = i
    /\ AfterRender(renderProjects(View(allProjectsData, visibilityEngine,
                                       currentCategory, currentSort, i)))
    /\ lastEvent' = [op |-> "page", before |-> visibilityEngine]
    /\ UNCHANGED << projectsJson, domLoaded, componentsLoaded, timeoutFired, initCount,
                    listeners, awaiting1, awaiting2, engineConstructions,
                    allProjectsData, currentCategory, currentSort, searchInputValue,
                    sortSelectValue, discarded >>

\* the callbacks of a loaded page, for the inputs the user may give
PageEvents(queries, filters, sorts) ==
    \/ FetchFirstResponse
    \/ FetchSecondResponse
    \/ FetchFailed
    \/ \E value \in queries : SearchInput(value)
    \/ \E value \in sorts : SortChange(value)
    \/ \E filter \in filters : FilterClick(filter)
    \/ ClearFilters

\* The whole page view, from the evaluation of the module on.
Next ==
    \/ ComponentLoaded
    \/ Timeout
    \/ PageEvents({<< >>, << " ", "B" >>}, {ALL, gAmes}, {DEFAULT, NEWEST})
    \/ \E i \in 1..2 : PageClick(i)

Spec == Init /\ [][Next]_vars

\* The loaded page under every search text and every filter button.
NextEngine == PageEvents(Queries, FilterValues, {DEFAULT, NEWEST})

SpecEngine == Loaded(Collections) /\ [][NextEngine]_vars

\* The loaded page under every sort option.
NextSort ==
    \/ PageEvents({<< >>, << "a" >>}, {ALL, gAmes}, SortValues)
    \/ \E i \in 1..2 : PageClick(i)

SpecSort == Loaded(Collections \cup LongCollections) /\ [][NextSort]_vars

---------------------------------------------------------------------------
(* Vocabulary of the properties, defined without the operators above *)

\* p occurs in s at some offset
IsSubstring(p, s) ==
    \E k \in 0..(Len(s) - Len(p)) : \A j \in 1..Len(p) : s[k + j] = p[j]

\* q without its leading and trailing blanks
Trimmed(q) ==
    LET solid == {i \in 1..Len(q) : q[i] # " "}
    IN  IF solid = {} THEN << >>
        ELSE SubSeq(q, CHOOSE i \in solid : \A j \in solid : i <= j,
                       CHOOSE i \in solid : \A j \in solid : j <= i)

\* the query as the search gate sees it
Needle(e) == toLowerCase(Trimmed(e.searchQuery))

\* the needle occurs in the record's title, description or a tech entry
FieldMatch(e, id) ==
    LET r == Project(id)
    IN  \/ IsSubstring(Needle(e), toLowerCase(r.title))
        \/ IsSubstring(Needle(e), toLowerCase(r.description))
        \/ has(r, "tech") /\ \E i \in 1..Len(r.tech) :
                                  IsSubstring(Needle(e), toLowerCase(r.tech[i]))

\* the stored category is the sentinel, or is the record's, case aside
CategoryPermits(e, id) ==
    \/ toLowerCase(e.category) = ALL
    \/ has(Project(id), "category")
         /\ toLowerCase(Project(id).category) = toLowerCase(e.category)

\* t keeps the order of s and repeats nothing (s holds no record twice)
IsOrderedSubsequence(t, s) ==
    /\ \A i \in 1..Len(t) : \E k \in 1..Len(s) : s[k] = t[i]
    /\ \A i, j \in 1..Len(t) :
          i < j => \E k, l \in 1..Len(s) : k < l /\ s[k] = t[i] /\ s[l] = t[j]

\* no record of the collection carries the stored category
UnknownCategory(e) ==
    /\ toLowerCase(e.category) # ALL
    /\ \A i \in 1..Len(e.allProjects) : ~CategoryPermits(e, e.allProjects[i])

Live == visibilityEngine # NULL

---------------------------------------------------------------------------
(* Properties *)

\* C1 -- Search gate substring law.  Whenever an engine exists, a record of
\* its collection is returned by getVisibleProjects(), and is in the list
\* renderProjects last obtained, exactly when the category gate permits it
\* and the trimmed, lowercased query is empty or occurs in the lowercased
\* title, description or some tech entry.
C1_SearchGateSubstringLaw ==
    Live =>
        \A k \in 1..Len(visibilityEngine.allProjects) :
            LET id   == visibilityEngine.allProjects[k]
                law  == /\ CategoryPermits(visibilityEngine, id)
                        /\ (Needle(visibilityEngine) = << >>
                             \/ FieldMatch(visibilityEngine, id))
            IN  /\ (id \in Range(getVisibleProjects(visibilityEngine))) <=> law
                /\ rendered => ((id \in Range(visible)) <=> law)

\* a typed query that needs trimming and case folding keeps some records and drops others
C1_Witness ==
    /\ Live /\ rendered /\ lastEvent.op = "search"
    /\ visibilityEngine.searchQuery = << " ", "B" >>
    /\ toLowerCase(visibilityEngine.category) = ALL
    /\ visible = << 3, 4, 2 >>
    /\ visibilityEngine.allProjects = << 3, 1, 4, 2, 5 >>

\* C2 -- Category gate totality.  Whenever an engine exists and its stored
\* category, lowercased, is not "all", no record whose lowercased category
\* differs (or is missing) is returned or drawn, whatever the query.
C2_CategoryGateTotality ==
    (Live /\ toLowerCase(visibilityEngine.category) # ALL) =>
        \A k \in 1..Len(visibilityEngine.allProjects) :
            LET id == visibilityEngine.allProjects[k]
                r  == Project(id)
            IN  (~has(r, "category")
                 \/ toLowerCase(r.category) # toLowerCase(visibilityEngine.category))
                => /\ id \notin Range(getVisibleProjects(visibilityEngine))
                   /\ rendered => id \notin Range(visible)

\* the query "a" occurs in the title of record 1 (category Tools), the stored category is gAmes
C2_Witness ==
    /\ Live /\ rendered
    /\ visibilityEngine.category = gAmes
    /\ visibilityEngine.searchQuery = << "a" >>
    /\ visibilityEngine.allProjects = << 3, 1, 4, 2, 5 >>
    /\ IsSubstring(<< "a" >>, toLowerCase(Project(1).title))
    /\ visible = << 3, 2 >>

\* C3 -- Reset law.  After the clear handler has called reset() on an engine,
\* searchQuery is "" and category is "all", the collection is the one the
\* engine had, and getVisibleProjects() returns what a freshly constructed
\* engine over that collection returns: the whole collection in source order.
C3_ResetLaw ==
    (lastEvent.op = "clear" /\ lastEvent.before # NULL) =>
        /\ Live
        /\ visibilityEngine.searchQuery = << >>
        /\ visibilityEngine.category = ALL
        /\ visibilityEngine.allProjects = lastEvent.before.allProjects
        /\ getVisibleProjects(visibilityEngine)
             = getVisibleProjects(Engine(lastEvent.before.allProjects))
        /\ getVisibleProjects(visibilityEngine) = lastEvent.before.allProjects
        /\ visible = lastEvent.before.allProjects

\* reset() ran on an engine that held a query and a category and showed nothing
C3_Witness ==
    /\ lastEvent.op = "clear" /\ lastEvent.before # NULL
    /\ lastEvent.before.searchQuery = << "B", " " >>
    /\ lastEvent.before.category = nonexistent
    /\ getVisibleProjects(lastEvent.before) = << >>
    /\ visible = << 3, 1, 4, 2, 5 >>

\* C4 -- Order-preserving subsequence.  Whenever an engine exists, what
\* getVisibleProjects() returns (and what renderProjects last obtained)
\* holds only records of allProjects, none twice, in the order of
\* allProjects; so it is no longer than allProjects and is empty when
\* allProjects is empty.
C4_OrderedSubsequence ==
    Live =>
        /\ IsOrderedSubsequence(getVisibleProjects(visibilityEngine),
                                visibilityEngine.allProjects)
        /\ Len(getVisibleProjects(visibilityEngine)) <= Len(visibilityEngine.allProjects)
        /\ visibilityEngine.allProjects = << >>
             => getVisibleProjects(visibilityEngine) = << >>
        /\ rendered =>
             /\ IsOrderedSubsequence(visible, visibilityEngine.allProjects)
             /\ Len(visible) <= Len(visibilityEngine.allProjects)

\* the query "a" keeps 3, 1, 2, 5 of 3, 1, 4, 2, 5: the title matches (1, 5) are not moved forward
C4_Witness ==
    /\ Live /\ rendered
    /\ visibilityEngine.allProjects = << 3, 1, 4, 2, 5 >>
    /\ normalize(visibilityEngine.searchQuery) = << "a" >>
    /\ visible = << 3, 1, 2, 5 >>

\* an engine over the empty collection, with a query and a category set
C4_WitnessEmpty ==
    /\ Live /\ rendered
    /\ visibilityEngine.allProjects = << >>
    /\ visibilityEngine.searchQuery # << >>
    /\ visibilityEngine.category # ALL

\* C5 -- Idempotence of getVisibleProjects().  A second call returns the
\* sequence the call inside renderProjects returned, although renderProjects
\* has sorted or reversed that result in place since; the engine's
\* allProjects stays the fetched collection, and a handler that only draws
\* (sort change, page click) leaves the engine as it found it.
C5_Idempotence ==
    /\ (Live /\ rendered) => getVisibleProjects(visibilityEngine) = visible
    /\ Live => visibilityEngine.allProjects = projectsJson
    /\ (lastEvent.op \in {"sort", "page"} /\ lastEvent.before # NULL) =>
          /\ visibilityEngine = lastEvent.before
          /\ getVisibleProjects(visibilityEngine) = getVisibleProjects(lastEvent.before)

\* the "az" sort has rearranged the list that was returned
C5_Witness ==
    /\ Live /\ lastEvent.op = "sort" /\ currentSort = AZ
    /\ visible = << 3, 1, 11, 2, 5, 6, 7, 8, 9, 10 >>
    /\ filteredProjects # visible

\* the "za" sort and the "newest" reversal have rearranged it as well
C5_WitnessOtherSorts ==
    /\ Live /\ lastEvent.op = "sort" /\ currentSort \in {ZA, NEWEST}
    /\ Len(visible) >= 2
    /\ filteredProjects # visible

C7_EngineConstructedOnce == engineConstructions <= 1 /\ ~discarded

\* C8 -- A record without a tech list (record 4) does not disturb the
\* engine: it is visible exactly when the category gate permits it and the
\* query is empty or occurs in its title or description, and every other
\* record is treated as it is when record 4 is replaced by its well-formed
\* twin (record 11, the same fields with an empty tech list).
C8_MalformedRecordAbsorbed ==
    (Live /\ 4 \in Range(visibilityEngine.allProjects)) =>
        LET e == visibilityEngine
            twin(s) == [i \in 1..Len(s) |-> IF s[i] = 4 THEN 11 ELSE s[i]]
            mended == [e EXCEPT !.allProjects = twin(@)]
            own == /\ CategoryPermits(e, 4)
                   /\ \/ Needle(e) = << >>
                      \/ IsSubstring(Needle(e), toLowerCase(Project(4).title))
                      \/ IsSubstring(Needle(e), toLowerCase(Project(4).description))
        IN  /\ (4 \in Range(getVisibleProjects(e))) <=> own
            /\ twin(getVisibleProjects(e)) = getVisibleProjects(mended)
            /\ rendered => /\ (4 \in Range(visible)) <=> own
                           /\ twin(visible) = getVisibleProjects(mended)

\* the query "BB" occurs only in the title of record 4, which is drawn alone
C8_Witness ==
    /\ Live /\ rendered
    /\ ~has(Project(4), "tech")
    /\ visibilityEngine.searchQuery = << "B", "B" >>
    /\ visibilityEngine.allProjects = << 3, 1, 4, 2, 5 >>
    /\ visible = << 4 >>

\* a query that record 4 does not match leaves the other records as they are
C8_WitnessOthers ==
    /\ Live /\ rendered
    /\ visibilityEngine.searchQuery = << "a" >>
    /\ visibilityEngine.allProjects = << 3, 1, 4, 2, 5 >>
    /\ visible = << 3, 1, 2, 5 >>

C9_State ==
    /\ (Live /\ UnknownCategory(visibilityEngine)) =>
          /\ getVisibleProjects(visibilityEngine) = << >>
          /\ rendered => visible = << >>
    /\ (Live /\ lastEvent.op = "filter") => visibilityEngine.category = currentCategory

C9_Step ==
    (Live /\ UnknownCategory(visibilityEngine)) =>
        /\ lastEvent'.op = "clear" => visible' = visibilityEngine.allProjects
        /\ (lastEvent'.op = "filter" /\ ~UnknownCategory(visibilityEngine')
                /\ Needle(visibilityEngine') = << >>)
             => /\ visibilityEngine.allProjects # << >> => visible' # << >>
                /\ toLowerCase(visibilityEngine'.category) = ALL
                     => visible' = visibilityEngine.allProjects

\* C9 -- An unknown category is accepted as it is.  After a filter click the
\* engine's category is the clicked value; while the stored category is
\* neither "all" nor any record's category, nothing is visible under any
\* query; the next Clear Filters shows the whole collection again and the
\* next click on a known category shows its records again.
C9_UnknownCategoryAccepted == []C9_State /\ [][C9_Step]_vars

\* the button "none" was clicked over five records and an empty query
C9_Witness ==
    /\ Live /\ lastEvent.op = "filter"
    /\ visibilityEngine.category = nonexistent
    /\ visibilityEngine.searchQuery = << >>
    /\ visibilityEngine.allProjects = << 3, 1, 4, 2, 5 >>
    /\ visible = << >>

C10_Step ==
    Live =>
        /\ lastEvent'.op = "search" =>
              /\ visibilityEngine' # NULL
              /\ visibilityEngine'.searchQuery = searchInputValue'
              /\ visibilityEngine'.category = visibilityEngine.category
              /\ visibilityEngine'.allProjects = visibilityEngine.allProjects
        /\ lastEvent'.op = "filter" =>
              /\ visibilityEngine' # NULL
              /\ visibilityEngine'.category = currentCategory'
              /\ visibilityEngine'.searchQuery = visibilityEngine.searchQuery
              /\ visibilityEngine'.allProjects = visibilityEngine.allProjects
        /\ lastEvent'.op \in {"sort", "page"} => visibilityEngine' = visibilityEngine

\* C10 -- Setter frame conditions.  The search handler stores the typed text
\* as it is and leaves category and allProjects alone; the filter handler
\* stores the clicked value as it is and leaves searchQuery and allProjects
\* alone; a handler that only calls getVisibleProjects() changes none of the
\* three fields.
C10_FrameConditions == [][C10_Step]_vars

\* " B" was typed while the category gAmes was stored
C10_Witness ==
    /\ Live /\ lastEvent.op = "search"
    /\ searchInputValue = << " ", "B" >>
    /\ visibilityEngine.searchQuery = << " ", "B" >>
    /\ visibilityEngine.category = gAmes
    /\ visibilityEngine.allProjects = << 3, 1, 4, 2, 5 >>

\* C11 -- initializeApp() runs at most once per page view: whatever the
\* order of componentLoaded events and the fallback timeout, the UI handlers
\* are attached once and initializeApp starts one fetchProjects().
C11_InitializedOnce == initCount <= 1 /\ listeners <= 1

\* C12 -- UI criteria and engine criteria agree: whenever an engine exists,
\* its category is currentCategory and its searchQuery is the value of the
\* search input.
C12_CriteriaAgree ==
    Live => /\ visibilityEngine.category = currentCategory
            /\ visibilityEngine.searchQuery = searchInputValue

\* C13 -- Clear Filters restores every view criterion: after the clear
\* handler, currentCategory is "all", currentPage is 1, currentSort is
\* "default", the engine holds its defaults, and the list drawn is the
\* first page of the whole collection in source order.
C13_ClearRestoresDefaults ==
    lastEvent.op = "clear" =>
        /\ currentCategory = ALL
        /\ currentPage = 1
        /\ currentSort = DEFAULT
        /\ Live => /\ visibilityEngine.searchQuery = << >>
                   /\ visibilityEngine.category = ALL
                   /\ filteredProjects = visibilityEngine.allProjects

=============================================================================
